---- MODULE Spec2Model ----
(***************************************************************************)
(* Repro: a reverse proxy route table (src/index.js).  A table owns a      *)
(* default scheme, host and port and a map from canonical route URL to     *)
(* canonical target URL.  Strings are TLA+ strings, read character by      *)
(* character, so the grammars and the URL parse/format round trip are      *)
(* computed rather than assumed.                                           *)
(***************************************************************************)
EXTENDS Integers, Sequences, FiniteSets, TLC

(***************************************************************************)
(* Characters and strings                                                  *)
(***************************************************************************)
Digits == {"0", "1", "2", "3", "4", "5", "6", "7", "8", "9"}

LowerLetters ==
    {"a", "b", "c", "d", "e", "f", "g", "h", "i", "j", "k", "l", "m",
     "n", "o", "p", "q", "r", "s", "t", "u", "v", "w", "x", "y", "z"}

UpperLetters ==
    {"A", "B", "C", "D", "E", "F", "G", "H", "I", "J", "K", "L", "M",
     "N", "O", "P", "Q", "R", "S", "T", "U", "V", "W", "X", "Y", "Z"}

Letters == LowerLetters \cup UpperLetters

AlphaNum == Letters \cup Digits

\* The i-th character of s, as a string of length one.
CharAt(s, i) == SubSeq(s, i, i)

AllIn(s, set) == \A i \in 1..Len(s) : CharAt(s, i) \in set

\* String.prototype.toLowerCase on one ASCII character.
LowerChar(c) ==
    CASE c = "A" -> "a" [] c = "B" -> "b" [] c = "C" -> "c" [] c = "D" -> "d"
      [] c = "E" -> "e" [] c = "F" -> "f" [] c = "G" -> "g" [] c = "H" -> "h"
      [] c = "I" -> "i" [] c = "J" -> "j" [] c = "K" -> "k" [] c = "L" -> "l"
      [] c = "M" -> "m" [] c = "N" -> "n" [] c = "O" -> "o" [] c = "P" -> "p"
      [] c = "Q" -> "q" [] c = "R" -> "r" [] c = "S" -> "s" [] c = "T" -> "t"
      [] c = "U" -> "u" [] c = "V" -> "v" [] c = "W" -> "w" [] c = "X" -> "x"
      [] c = "Y" -> "y" [] c = "Z" -> "z" [] OTHER -> c

RECURSIVE LowerFrom(_, _)
LowerFrom(s, i) ==
    IF i > Len(s) THEN "" ELSE LowerChar(CharAt(s, i)) \o LowerFrom(s, i + 1)

\* String.prototype.toLowerCase
ToLowerCase(s) == LowerFrom(s, 1)

\* Op applied to the value of v, with v evaluated once.
With(v, Op(_)) == CHOOSE r \in {Op(x) : x \in {v}} : TRUE

\* Index of the first occurrence of a character of set in s, 0 when none.
FirstIn(s, set) ==
    LET hits == {i \in 1..Len(s) : CharAt(s, i) \in set}
    IN  IF hits = {} THEN 0 ELSE CHOOSE i \in hits : \A j \in hits : i <= j

\* Index of the last occurrence of a character of set in s, 0 when none.
LastIn(s, set) ==
    LET hits == {i \in 1..Len(s) : CharAt(s, i) \in set}
    IN  IF hits = {} THEN 0 ELSE CHOOSE i \in hits : \A j \in hits : i >= j

\* The pieces of s between the positions cuts (ascending; 0 and Len(s) + 1
\* stand for the two ends).
Pieces(s, cuts) ==
    [k \in 1..(Len(cuts) - 1) |-> SubSeq(s, cuts[k] + 1, cuts[k + 1] - 1)]

\* String.prototype.split on a one-character separator.
Split(s, sep) ==
    With({i \in 1..Len(s) : CharAt(s, i) = sep},
         LAMBDA hits :
             Pieces(s, [k \in 1..(Cardinality(hits) + 2) |->
                           IF k = 1 THEN 0
                           ELSE IF k = Cardinality(hits) + 2 THEN Len(s) + 1
                           ELSE CHOOSE i \in hits :
                                    Cardinality({j \in hits : j < i}) = k - 2]))

\* JavaScript truthiness of a string: only the empty string is falsy.
Truthy(s) == s # ""

(***************************************************************************)
(* The grammars of the constructor (src/index.js:507-512)                  *)
(***************************************************************************)
\* /^[a-zA-Z]([a-zA-Z0-9\+\-\.])*$/
isScheme(s) ==
    /\ Len(s) >= 1
    /\ CharAt(s, 1) \in Letters
    /\ AllIn(s, AlphaNum \cup {"+", "-", "."})

\* The port grammar without its end anchor: /^[0-9]+/
isPort_Unanchored(s) == Len(s) >= 1 /\ CharAt(s, 1) \in Digits

\* /^[0-9]+$/
isPort(s) == Len(s) >= 1 /\ AllIn(s, Digits)

\* [a-zA-Z0-9](?:([a-zA-Z0-9\-])*[a-zA-Z0-9])?
IsLabel(s) ==
    /\ Len(s) >= 1
    /\ CharAt(s, 1) \in AlphaNum
    /\ CharAt(s, Len(s)) \in AlphaNum
    /\ AllIn(s, AlphaNum \cup {"-"})

\* (label\.)*[a-zA-Z](?:([a-zA-Z0-9\-])*[a-zA-Z0-9])?\.? on the parts between
\* the dots; one trailing dot is allowed: it leaves an empty last part.
IsHostNameParts(parts) ==
    LET n == Len(parts)
        m == IF n >= 2 /\ parts[n] = "" THEN n - 1 ELSE n
    IN  /\ \A i \in 1..m : IsLabel(parts[i])
        /\ CharAt(parts[m], 1) \in Letters

\* [0-9]+\.[0-9]+\.[0-9]+\.[0-9]+ on the parts between the dots.
IsDottedQuadParts(parts) == Len(parts) = 4 /\ \A i \in 1..4 : isPort(parts[i])

\* this._isHost
isHost(s) ==
    With(Split(s, "."),
         LAMBDA parts : IsHostNameParts(parts) \/ IsDottedQuadParts(parts))

\* isHostPort that also takes a scheme and "://" before the host.
isHostPort_AllowsScheme(s) ==
    With(Split(s, ":"),
         LAMBDA parts :
             \/ Len(parts) = 1 /\ isHost(parts[1])
             \/ Len(parts) = 2 /\ isHost(parts[1]) /\ isPort(parts[2])
             \/ /\ Len(parts) = 3
                /\ isScheme(parts[1])
                /\ SubSeq(parts[2], 1, 2) = "//"
                /\ isHost(SubSeq(parts[2], 3, Len(parts[2])))
                /\ isPort(parts[3]))

\* this._isHostPort: a host optionally followed by (?::[0-9]+)
isHostPort(s) ==
    With(Split(s, ":"),
         LAMBDA parts :
             \/ Len(parts) = 1 /\ isHost(parts[1])
             \/ Len(parts) = 2 /\ isHost(parts[1]) /\ isPort(parts[2]))

(***************************************************************************)
(* Node's legacy url module, as onShouldFormatUrl uses it                  *)
(***************************************************************************)
\* Characters of protocolPattern /^([a-z0-9.+-]+:)/i
ProtocolChars == AlphaNum \cup {".", "+", "-"}

\* Characters that end the host section of a URL (hostEndingChars and
\* nonHostChars of url.js).
HostEndingChars ==
    {"/", "?", "#", "<", ">", "\"", "`", " ", "{", "}", "|", "\\", "^", "'",
     "%", ";"}

\* Protocols that never have a hostname (hostlessProtocol of url.js).
HostlessProtocol == {"javascript:"}

\* Protocols that always contain a // bit (slashedProtocol of url.js).
SlashedProtocol == {"http:", "https:", "ftp:", "gopher:", "file:"}

\* Url.prototype.parseHost: split a trailing /:[0-9]*$/ off the host.
parseHost(hostStr) ==
    With(LastIn(hostStr, {":"}),
         LAMBDA c :
             IF c > 0 /\ AllIn(SubSeq(hostStr, c + 1, Len(hostStr)), Digits)
             THEN [hostname |-> SubSeq(hostStr, 1, c - 1),
                   port     |-> SubSeq(hostStr, c + 1, Len(hostStr))]
             ELSE [hostname |-> hostStr, port |-> ""])

\* The end of a leading protocolPattern match in str (the index of its
\* colon), 0 when str does not start with a protocol.
ProtocolEnd(str) ==
    With(FirstIn(str, {":"}),
         LAMBDA c :
             IF c > 1 /\ AllIn(SubSeq(str, 1, c - 1), ProtocolChars)
             THEN c ELSE 0)

\* The host section at the start of rest: up to the first character that
\* cannot be part of a host.
HostSection(rest) ==
    With(FirstIn(rest, HostEndingChars),
         LAMBDA e : IF e = 0 THEN rest ELSE SubSeq(rest, 1, e - 1))

\* HostOf keeping the case of the hostname.
HostOf_KeepCase(hostStr) ==
    With(parseHost(hostStr),
         LAMBDA hp :
             [hostname |-> IF Len(hp.hostname) > 255 THEN "" ELSE hp.hostname,
              port     |-> hp.port])

\* The hostname and port of a host section; a hostname longer than
\* hostnameMaxLen is dropped, any other is lower-cased.
HostOf(hostStr) ==
    With(parseHost(hostStr),
         LAMBDA hp :
             [hostname |-> IF Len(hp.hostname) > 255 THEN ""
                           ELSE ToLowerCase(hp.hostname),
              port     |-> hp.port])

\* Url.prototype.parse after the protocol proto ("" when there is none) has
\* been taken off the front: rest0 is what follows it.
ParseRest(proto, rest0) ==
    LET slashes  == Len(rest0) >= 2 /\ SubSeq(rest0, 1, 2) = "//"
        hostless == proto \in HostlessProtocol
    IN  IF ~hostless /\ (slashes \/ (proto # "" /\ proto \notin SlashedProtocol))
        THEN With(HostOf(HostSection(IF slashes
                                     THEN SubSeq(rest0, 3, Len(rest0))
                                     ELSE rest0)),
                  LAMBDA h : [protocol |-> proto,
                              hostname |-> h.hostname,
                              port     |-> h.port])
        ELSE [protocol |-> proto, hostname |-> "", port |-> ""]

\* urlParse keeping the letter case of the protocol.
urlParse_KeepProtocolCase(str) ==
    With(ProtocolEnd(str),
         LAMBDA c :
             With(<<SubSeq(str, 1, c), SubSeq(str, c + 1, Len(str))>>,
                  LAMBDA pr : ParseRest(pr[1], pr[2])))

\* uri.parse(str, true, true): the protocol, hostname and port of the
\* parsed URL; "" stands for a component that is null or undefined.
urlParse(str) ==
    With(ProtocolEnd(str),
         LAMBDA c :
             With(<<ToLowerCase(SubSeq(str, 1, c)), SubSeq(str, c + 1, Len(str))>>,
                  LAMBDA pr : ParseRest(pr[1], pr[2])))

\* urlFormat leaving out the // that slashes: true asks for.
urlFormat_NoSlashes(obj) ==
    LET protocolPart == IF Truthy(obj.protocol)
                       /\ CharAt(obj.protocol, Len(obj.protocol)) # ":"
                    THEN obj.protocol \o ":" ELSE obj.protocol
        authority == IF Truthy(obj.hostname)
                     THEN obj.hostname
                          \o (IF Truthy(obj.port) THEN ":" \o obj.port ELSE "")
                     ELSE ""
    IN  protocolPart \o authority

\* uri.format of an object with protocol, hostname, port and slashes: true.
urlFormat(obj) ==
    LET protocolPart == IF Truthy(obj.protocol)
                       /\ CharAt(obj.protocol, Len(obj.protocol)) # ":"
                    THEN obj.protocol \o ":" ELSE obj.protocol
        authority == IF Truthy(obj.hostname)
                     THEN obj.hostname
                          \o (IF Truthy(obj.port) THEN ":" \o obj.port ELSE "")
                     ELSE ""
    IN  protocolPart \o "//" \o authority

(***************************************************************************)
(* Canonicalization (src/index.js:569-610)                                 *)
(***************************************************************************)
\* FormatParsed taking the default port whatever was parsed.
FormatParsed_DefaultPort(parsedUrl, dScheme, dHost, dPort) ==
    urlFormat([protocol |-> IF Truthy(parsedUrl.protocol)
                            THEN parsedUrl.protocol ELSE dScheme,
               hostname |-> IF Truthy(parsedUrl.hostname)
                            THEN parsedUrl.hostname ELSE dHost,
               port     |-> dPort])

\* FormatParsed leaving the port out when none was parsed.
FormatParsed_NoPortFallback(parsedUrl, dScheme, dHost, dPort) ==
    urlFormat([protocol |-> IF Truthy(parsedUrl.protocol)
                            THEN parsedUrl.protocol ELSE dScheme,
               hostname |-> IF Truthy(parsedUrl.hostname)
                            THEN parsedUrl.hostname ELSE dHost,
               port     |-> parsedUrl.port])

\* uri.format of the parsed tokens, each falling back to its default.
FormatParsed(parsedUrl, dScheme, dHost, dPort) ==
    urlFormat([protocol |-> IF Truthy(parsedUrl.protocol)
                            THEN parsedUrl.protocol ELSE dScheme,
               hostname |-> IF Truthy(parsedUrl.hostname)
                            THEN parsedUrl.hostname ELSE dHost,
               port     |-> IF Truthy(parsedUrl.port)
                            THEN parsedUrl.port ELSE dPort])

\* FormatUrl without the isPort || isHostPort guard.
FormatUrl_NoGuard(dScheme, dHost, dPort, route) ==
    With(urlParse(IF isPort(route)
                  THEN dScheme \o "://" \o dHost \o ":" \o route
                  ELSE dScheme \o "://" \o route),
         LAMBDA parsedUrl : FormatParsed(parsedUrl, dScheme, dHost, dPort))

\* onShouldFormatUrl with the defaults it reads passed explicitly.
FormatUrl(dScheme, dHost, dPort, route) ==
    IF isPort(route) \/ isHostPort(route)
    THEN With(urlParse(IF isPort(route)
                       THEN dScheme \o "://" \o dHost \o ":" \o route
                       ELSE dScheme \o "://" \o route),
              LAMBDA parsedUrl : FormatParsed(parsedUrl, dScheme, dHost, dPort))
    ELSE ""

\* A property of an options object: a string, or undefined when the
\* object has no such property.  str is what ToString makes of it, which is
\* what RegExp.prototype.exec and string concatenation see.
Given(s) == [defined |-> TRUE, str |-> s]

Missing == [defined |-> FALSE, str |-> "undefined"]

\* The value as uri.format sees it: undefined counts as absent.
OrAbsent(v) == IF v.defined THEN v.str ELSE ""

\* onShouldFormatUrl(route, options) of the variant with per-call options
\* (src/index.js:145-187), with the defaults it reads passed explicitly.
FormatUrlWith(options, dScheme, dHost, dPort, route) ==
    LET optScheme == IF options.has /\ isScheme(options.scheme.str)
                     THEN options.scheme ELSE Given(dScheme)
        optHost   == IF options.has /\ isHost(options.host.str)
                     THEN options.host ELSE Given(dHost)
        optPort   == IF options.has /\ isPort(options.port.str)
                     THEN options.port ELSE Given(dPort)
    IN  IF isPort(route) \/ isHostPort(route)
        THEN With(urlParse(IF isPort(route)
                           THEN optScheme.str \o "://" \o optHost.str
                                    \o ":" \o route
                           ELSE optScheme.str \o "://" \o route),
                  LAMBDA parsedUrl :
                      FormatParsed(parsedUrl, OrAbsent(optScheme),
                                   OrAbsent(optHost), OrAbsent(optPort)))
        ELSE ""

(***************************************************************************)
(* Arguments of the calls                                                  *)
(***************************************************************************)
\* Bound: the route map holds at most MaxRoutes entries.
MaxRoutes == 2

SchemeArgs == {"http", "HTTP", "javascript", "not valid!"}

HostArgs == {"B.org", "bad host!"}

PortArgs == {"8080", "80a"}

RouteArgs ==
    {"api.example.com", "a.com", "a.com:80", "8080", "not a valid route!!"}

TargetArgs == {"127.0.0.1:8080", "1.2.3.4:9000", "8080", "not a valid route!!"}

LookupArgs == RouteArgs \cup {"whoops.example.com"}

\* Bare ports, used as route and as target at once.
PortRoutes == {"0", "8080", "65535"}

\* Bare hosts, used as route and as target at once.
HostRoutes == {"a.com", "B.org", "1.2.3.4", "Api.Example.com."}

\* Routes and targets of the calls made while a delegate is installed.
DelegateRoutes == {"a.com", "8080", "constructor", "not a valid route!!"}

\* Routes that differ in the letter case of the host only, and one more.
CaseRoutes == {"API.Example.com", "api.example.com", "a.com"}

\* A bare port and a bare host, and their spellings with the host or the
\* port written out, for each default the table can have.
BareRoutes == {"8080", "a.com"}

AliasRoutes ==
    BareRoutes \cup {"127.0.0.1:8080", "B.org:8080", "a.com:80", "a.com:8080"}

\* Defaults that are changed and set back after routes were added, and the
\* routes added and asked for.
StaleSchemes == {"http", "HTTP", "javascript"}

StaleHosts == {"B.org", "b.org"}

StalePorts == {"80", "8080"}

StaleRoutes == {"a.com", "a.com:80", "8080"}

\* A bare host and a bare port, and every URL onShouldFormatUrl returns for
\* them under the defaults "http" or "javascript", "127.0.0.1", "80" or
\* "8080": the strings getTarget can return, passed back in as arguments.
UrlSchemes == {"http", "javascript"}

UrlPorts == {"80", "8080"}

PlainRoutes == {"a.com", "8080"}

CanonicalUrls ==
    {FormatUrl(x[1], "127.0.0.1", x[2], x[3]) :
        x \in UrlSchemes \X UrlPorts \X PlainRoutes}

UrlArgs == PlainRoutes \cup CanonicalUrls

\* Keys of the tables whose pairs share canonical routes.
OrderRoutes == {"127.0.0.1:80", "80", "a.com", "a.com:80", "9000"}

RawArgs ==
    RouteArgs \cup TargetArgs \cup LookupArgs \cup PortRoutes \cup HostRoutes
        \cup OrderRoutes \cup DelegateRoutes \cup CaseRoutes
        \cup AliasRoutes \cup UrlArgs

\* A JavaScript value passed as the table of addRoutes / replaceRoutes: what
\* typeof yields, whether it is truthy, and for an object its own
\* enumerable properties as <<key, value>> pairs in insertion order.
JsValue(type, truthy, pairs) ==
    [typeof |-> type, truthy |-> truthy, pairs |-> pairs]

JsObject(pairs) == JsValue("object", TRUE, pairs)

Null == JsValue("object", FALSE, <<>>)

NonObjectArgs ==
    { Null,
      JsValue("undefined", FALSE, <<>>),
      JsValue("string", TRUE, <<>>),
      JsValue("number", TRUE, <<>>),
      JsValue("boolean", TRUE, <<>>) }

\* { "a.com": "1.2.3.4:9000" }
AComTable == JsObject(<< <<"a.com", "1.2.3.4:9000">> >>)

ObjectArgs ==
    { AComTable,
      JsObject(<< <<"api.example.com", "127.0.0.1:8080">>,
                  <<"not a valid route!!", "8080">> >>) }

TableArgs == ObjectArgs \cup NonObjectArgs

\* { "127.0.0.1:80": "1.2.3.4:9000", "80": "8080" }
PortLastTable ==
    JsObject(<< <<"127.0.0.1:80", "1.2.3.4:9000">>, <<"80", "8080">> >>)

\* Tables with keys that canonicalize to the same route under some
\* defaults: a host:port before a bare port, a host before the same host
\* with a port, and two bare ports inserted in descending order.
OrderTables ==
    { PortLastTable,
      JsObject(<< <<"a.com", "1.2.3.4:9000">>, <<"a.com:80", "8080">> >>),
      JsObject(<< <<"9000", "1.2.3.4:9000">>, <<"80", "8080">> >>) }

\* {}
EmptyTable == JsObject(<<>>)

\* ["not a valid route!!"]: an array is an object whose enumerable keys are
\* its indices.
ArrayTable == JsObject(<< <<"0", "not a valid route!!">> >>)

\* Replacement tables with no usable pair: no pair at all, a valid key with
\* a malformed value, a malformed key with a valid value; then a table with
\* a usable pair, and null.
ReplaceTables ==
    { EmptyTable,
      ArrayTable,
      JsObject(<< <<"a.com", "not a valid route!!">> >>),
      JsObject(<< <<"not a valid route!!", "8080">>,
                  <<"8080", "not a valid route!!">> >>),
      AComTable,
      Null }

NoTable == JsValue("undefined", FALSE, <<>>)

\* An options argument: has is !!options && typeof options === 'object'.
Options(sch, hst, prt) == [has |-> TRUE, scheme |-> sch, host |-> hst, port |-> prt]

\* No options argument at all.
NoOptions == [has |-> FALSE, scheme |-> Missing, host |-> Missing, port |-> Missing]

\* { scheme: 'ssh', host: 'B.org', port: '22' }, { port: '22' },
\* { scheme: 'ssh' }, and an object whose three fields fail their grammars.
OptionsArgs ==
    { NoOptions,
      Options(Given("ssh"), Given("B.org"), Given("22")),
      Options(Missing, Missing, Given("22")),
      Options(Given("ssh"), Missing, Missing),
      Options(Given("not valid!"), Given("bad host!"), Given("80a")) }

\* Routes and targets of the calls made with options.
OptionsRoutes == {"a.com", "8080", "not a valid route!!"}

\* A JavaScript function value, told apart by its body.
JsFunction(body) ==
    [typeof |-> "function", truthy |-> TRUE, pairs |-> <<>>, body |-> body]

\* Repro.prototype.onShouldFormatUrl, the strategy of a new table.
DefaultDelegate == JsFunction("Repro.prototype.onShouldFormatUrl")

\* function (route) { return route; }
Verbatim == JsFunction("return route;")

\* function (route) {
\*     return /^[0-9]+$/.test(route) ? 'http://localhost:' + route + '/api' : '';
\* }
ApiPorts ==
    JsFunction("return /^[0-9]+$/.test(route) ? 'http://localhost:' + route + '/api' : '';")

\* The prototype's method can be read off any table and passed back in.
FunctionArgs == {Verbatim, ApiPorts, DefaultDelegate}

\* What a caller passes to setShouldFormatUrlDelegate: functions, and
\* values that are not functions.
DelegateArgs == FunctionArgs \cup {Null, NoTable, JsValue("string", TRUE, <<>>)}

\* The properties every object inherits from Object.prototype.
ObjectPrototypeNames ==
    {"constructor", "hasOwnProperty", "isPrototypeOf", "propertyIsEnumerable",
     "toLocaleString", "toString", "valueOf", "__proto__", "__defineGetter__",
     "__defineSetter__", "__lookupGetter__", "__lookupSetter__"}

(***************************************************************************)
(* State                                                                   *)
(***************************************************************************)
VARIABLES
    scheme,     \* this._scheme
    host,       \* this._host
    port,       \* this._port
    routes,     \* this._routes: canonical route URL -> canonical target URL
    delegate,   \* this.onShouldFormatUrl
    other,      \* the fields of a second table, made by another repro()
    call,       \* the last call made on the table and its arguments
    ret         \* what the last call returned

vars == <<scheme, host, port, routes, delegate, other, call, ret>>

Call(op, route, target, tbl) ==
    [op |-> op, route |-> route, target |-> target, table |-> tbl]

\* Return values: the table itself (chaining), a string, undefined, a boolean.
Self == [kind |-> "self", url |-> "", flag |-> FALSE]

Str(u) == [kind |-> "string", url |-> u, flag |-> FALSE]

Undefined == [kind |-> "undefined", url |-> "", flag |-> FALSE]

Bool(b) == [kind |-> "boolean", url |-> "", flag |-> b]

\* A function or object that {} inherits from Object.prototype.
Inherited == [kind |-> "inherited", url |-> "", flag |-> FALSE]

EmptyRoutes == [k \in {} |-> ""]

\* The fields function Repro() gives a table.
NewTable ==
    [scheme |-> "http", host |-> "127.0.0.1", port |-> "80",
     routes |-> EmptyRoutes, delegate |-> DefaultDelegate]

\* function Repro(), twice: var a = repro(), b = repro();
Init ==
    /\ scheme = "http"
    /\ host = "127.0.0.1"
    /\ port = "80"
    /\ routes = EmptyRoutes
    /\ delegate = DefaultDelegate
    /\ other = NewTable
    /\ call = Call("repro", "", "", NoTable)
    /\ ret = Self

(***************************************************************************)
(* Helpers of the operations                                               *)
(***************************************************************************)
\* The values the defaults can take, and the strings that are canonicalized.
SchemeVals == {"http"} \cup {s \in SchemeArgs : isScheme(s)}

HostVals == {"127.0.0.1"} \cup {h \in HostArgs \cup StaleHosts : isHost(h)}

PortVals == {"80"} \cup {p \in PortArgs : isPort(p)}

\* The defaults and strings of the model.
FormatUrlDomain == SchemeVals \X HostVals \X PortVals \X RawArgs

\* FormatUrl, tabulated once over the defaults and strings of the model.
FormatUrlTable ==
    [x \in FormatUrlDomain |->
        With(x, LAMBDA d : FormatUrl(d[1], d[2], d[3], d[4]))] @@ <<>>

\* A caller-supplied delegate d applied to route.
ApplyDelegate(d, route) ==
    IF d = Verbatim THEN route
    ELSE IF isPort(route) THEN "http://localhost:" \o route \o "/api" ELSE ""

\* onShouldFormatUrl with a port grammar that keeps its place between
\* calls, as a regular expression with the g flag does: after matching a
\* bare port, the next exec on the same string starts at its end and fails.
onShouldFormatUrl_Stateful(route) ==
    IF /\ call.op \in {"addRoute", "removeRoute", "getTarget", "hasTarget"}
       /\ call.route = route
       /\ isPort(route)
    THEN ""
    ELSE IF delegate # DefaultDelegate THEN ApplyDelegate(delegate, route)
    ELSE FormatUrl(scheme, host, port, route)

\* this.onShouldFormatUrl(route): the prototype's method, reading the
\* table's current defaults, unless a delegate has replaced it.
onShouldFormatUrl(route) ==
    IF delegate # DefaultDelegate THEN ApplyDelegate(delegate, route)
    ELSE IF <<scheme, host, port, route>> \in FormatUrlDomain
    THEN FormatUrlTable[<<scheme, host, port, route>>]
    ELSE FormatUrl(scheme, host, port, route)

\* An assignment that keeps the value of a key already present.
Put_KeepFirst(rs, key, value) ==
    [k \in DOMAIN rs \cup {key} |-> IF k \in DOMAIN rs THEN rs[k] ELSE value]

\* this._routes[key] = value
Put(rs, key, value) ==
    [k \in DOMAIN rs \cup {key} |-> IF k = key THEN value ELSE rs[k]]

\* delete this._routes[key]
Delete(rs, key) == [k \in DOMAIN rs \ {key} |-> rs[k]]

\* this._routes[key]: the stored string, else what the object literal
\* inherits under that name, else undefined.
Lookup(rs, key) ==
    IF key \in DOMAIN rs THEN Str(rs[key])
    ELSE IF key \in ObjectPrototypeNames THEN Inherited
    ELSE Undefined

\* addRoute storing the target string as given instead of its URL.
AddRouteTo_RawTarget(rs, route, target) ==
    LET routeUrl  == onShouldFormatUrl(route)
        targetUrl == onShouldFormatUrl(target)
    IN  IF Truthy(routeUrl) /\ Truthy(targetUrl)
        THEN Put(rs, routeUrl, target)
        ELSE rs

\* addRoute writing as soon as one of the two strings canonicalizes.
AddRouteTo_Either(rs, route, target) ==
    LET routeUrl  == onShouldFormatUrl(route)
        targetUrl == onShouldFormatUrl(target)
    IN  IF Truthy(routeUrl) \/ Truthy(targetUrl)
        THEN Put(rs, routeUrl, targetUrl)
        ELSE rs

\* addRoute taking the entry away again when it is already there.
AddRouteTo_Toggle(rs, route, target) ==
    LET routeUrl  == onShouldFormatUrl(route)
        targetUrl == onShouldFormatUrl(target)
    IN  IF Truthy(routeUrl) /\ Truthy(targetUrl)
        THEN IF routeUrl \in DOMAIN rs /\ rs[routeUrl] = targetUrl
             THEN Delete(rs, routeUrl)
             ELSE Put(rs, routeUrl, targetUrl)
        ELSE rs

\* The body of addRoute on a route map rs.
AddRouteTo(rs, route, target) ==
    LET routeUrl  == onShouldFormatUrl(route)
        targetUrl == onShouldFormatUrl(target)
    IN  IF Truthy(routeUrl) /\ Truthy(targetUrl)
        THEN Put(rs, routeUrl, targetUrl)
        ELSE rs

DigitValue(c) ==
    CASE c = "0" -> 0 [] c = "1" -> 1 [] c = "2" -> 2 [] c = "3" -> 3
      [] c = "4" -> 4 [] c = "5" -> 5 [] c = "6" -> 6 [] c = "7" -> 7
      [] c = "8" -> 8 [] c = "9" -> 9

\* a <= b for two decimal numerals of the same length.
RECURSIVE NumeralLeq(_, _)
NumeralLeq(a, b) ==
    IF a = "" THEN TRUE
    ELSE IF DigitValue(Head(a)) < DigitValue(Head(b)) THEN TRUE
    ELSE IF DigitValue(Head(a)) > DigitValue(Head(b)) THEN FALSE
    ELSE NumeralLeq(Tail(a), Tail(b))

\* a <= b as numbers, for decimal numerals without leading zeros.
IndexLeq(a, b) == Len(a) < Len(b) \/ (Len(a) = Len(b) /\ NumeralLeq(a, b))

\* A property key that is an array index: a canonical decimal numeral
\* below 2^32 - 1.  for-in visits these first, in ascending order.
IsArrayIndex(k) ==
    /\ isPort(k)
    /\ k = "0" \/ CharAt(k, 1) # "0"
    /\ IndexLeq(k, "4294967294")

RECURSIVE SortByIndex(_)
SortByIndex(pairs) ==
    IF pairs = <<>> THEN <<>>
    ELSE LET m == CHOOSE i \in 1..Len(pairs) :
                      \A j \in 1..Len(pairs) : IndexLeq(pairs[i][1], pairs[j][1])
         IN  <<pairs[m]>>
             \o SortByIndex(SubSeq(pairs, 1, m - 1)
                            \o SubSeq(pairs, m + 1, Len(pairs)))

\* for-in visiting the pairs in the order they were inserted.
ForIn_InsertionOrder(pairs) == pairs

\* for (var route in routes): the order in which the pairs are visited.
ForIn(pairs) ==
    LET IsIndexPair(p) == IsArrayIndex(p[1])
        IsNamePair(p)  == ~IsArrayIndex(p[1])
    IN  SortByIndex(SelectSeq(pairs, IsIndexPair))
        \o SelectSeq(pairs, IsNamePair)

\* The loop of addRoutes over the visited pairs.
RECURSIVE AddAll(_, _)
AddAll(rs, pairs) ==
    IF pairs = <<>> THEN rs
    ELSE AddAll(AddRouteTo(rs, pairs[1][1], pairs[1][2]), Tail(pairs))

\* The guard without its !!routes half: null passes, as typeof null is
\* 'object'.
IsObjectArg_TypeofOnly(tbl) == tbl.typeof = "object"

\* !!routes && typeof routes === 'object'
IsObjectArg(tbl) == tbl.truthy /\ tbl.typeof = "object"

\* The body of addRoutes on a route map rs.
AddRoutesTo(rs, tbl) ==
    IF IsObjectArg(tbl) THEN AddAll(rs, ForIn(tbl.pairs)) ELSE rs

\* What getTarget(route) returns in the current state.
GetTargetOf(route) == Lookup(routes, onShouldFormatUrl(route))

\* What hasTarget(route) returns in the current state: !!this._routes[...]
HasTargetOf(route) ==
    With(GetTargetOf(route),
         LAMBDA v : (v.kind = "string" /\ Truthy(v.url)) \/ v.kind = "inherited")

WithinBound(rs) == Cardinality(DOMAIN rs) <= MaxRoutes

(***************************************************************************)
(* Operations (src/index.js:524-765)                                       *)
(***************************************************************************)
setScheme(s) ==
    /\ scheme' = IF isScheme(s) THEN s ELSE scheme
    /\ call' = Call("setScheme", s, "", NoTable)
    /\ ret' = Self
    /\ UNCHANGED <<host, port, routes, delegate, other>>

\* setHost that also resets the route map.
setHost_Clears(h) ==
    /\ host' = IF isHost(h) THEN h ELSE host
    /\ routes' = EmptyRoutes
    /\ call' = Call("setHost", h, "", NoTable)
    /\ ret' = Self
    /\ UNCHANGED <<scheme, port, delegate, other>>

setHost(h) ==
    /\ host' = IF isHost(h) THEN h ELSE host
    /\ call' = Call("setHost", h, "", NoTable)
    /\ ret' = Self
    /\ UNCHANGED <<scheme, port, routes, delegate, other>>

\* setPort that also resets the route map.
setPort_Clears(p) ==
    /\ port' = IF isPort(p) THEN p ELSE port
    /\ routes' = EmptyRoutes
    /\ call' = Call("setPort", p, "", NoTable)
    /\ ret' = Self
    /\ UNCHANGED <<scheme, host, delegate, other>>

setPort(p) ==
    /\ port' = IF isPort(p) THEN p ELSE port
    /\ call' = Call("setPort", p, "", NoTable)
    /\ ret' = Self
    /\ UNCHANGED <<scheme, host, routes, delegate, other>>

addRoutes(tbl) ==
    /\ routes' = AddRoutesTo(routes, tbl)
    /\ WithinBound(routes')
    /\ call' = Call("addRoutes", "", "", tbl)
    /\ ret' = Self
    /\ UNCHANGED <<scheme, host, port, delegate, other>>

\* removeRoutes leaving this._routes as it is.
removeRoutes_KeepsMap ==
    /\ routes' = routes
    /\ call' = Call("removeRoutes", "", "", NoTable)
    /\ ret' = Self
    /\ UNCHANGED <<scheme, host, port, delegate, other>>

removeRoutes ==
    /\ routes' = EmptyRoutes
    /\ call' = Call("removeRoutes", "", "", NoTable)
    /\ ret' = Self
    /\ UNCHANGED <<scheme, host, port, delegate, other>>

\* replaceRoutes without its removeRoutes() call.
replaceRoutes_NoClear(tbl) ==
    /\ routes' = IF IsObjectArg(tbl) THEN AddRoutesTo(routes, tbl) ELSE routes
    /\ WithinBound(routes')
    /\ call' = Call("replaceRoutes", "", "", tbl)
    /\ ret' = Self
    /\ UNCHANGED <<scheme, host, port, delegate, other>>

\* replaceRoutes keeping the map when the new table adds no entry.
replaceRoutes_AllOrNothing(tbl) ==
    /\ routes' = IF IsObjectArg(tbl) /\ AddRoutesTo(EmptyRoutes, tbl) # EmptyRoutes
                 THEN AddRoutesTo(EmptyRoutes, tbl)
                 ELSE routes
    /\ WithinBound(routes')
    /\ call' = Call("replaceRoutes", "", "", tbl)
    /\ ret' = Self
    /\ UNCHANGED <<scheme, host, port, delegate, other>>

replaceRoutes(tbl) ==
    /\ routes' = IF IsObjectArg(tbl)
                 THEN AddRoutesTo(EmptyRoutes, tbl)
                 ELSE routes
    /\ WithinBound(routes')
    /\ call' = Call("replaceRoutes", "", "", tbl)
    /\ ret' = Self
    /\ UNCHANGED <<scheme, host, port, delegate, other>>

addRoute(route, target) ==
    /\ routes' = AddRouteTo(routes, route, target)
    /\ WithinBound(routes')
    /\ call' = Call("addRoute", route, target, NoTable)
    /\ ret' = Self
    /\ UNCHANGED <<scheme, host, port, delegate, other>>

\* removeRoute deleting under the route string instead of its URL.
removeRoute_RawKey(route) ==
    /\ routes' = IF Truthy(onShouldFormatUrl(route)) THEN Delete(routes, route)
                 ELSE routes
    /\ call' = Call("removeRoute", route, "", NoTable)
    /\ ret' = Self
    /\ UNCHANGED <<scheme, host, port, delegate, other>>

removeRoute(route) ==
    /\ LET routeUrl == onShouldFormatUrl(route)
       IN  routes' = IF Truthy(routeUrl) THEN Delete(routes, routeUrl)
                     ELSE routes
    /\ call' = Call("removeRoute", route, "", NoTable)
    /\ ret' = Self
    /\ UNCHANGED <<scheme, host, port, delegate, other>>

getTarget(route) ==
    /\ ret' = GetTargetOf(route)
    /\ call' = Call("getTarget", route, "", NoTable)
    /\ UNCHANGED <<scheme, host, port, routes, delegate, other>>

hasTarget(route) ==
    /\ ret' = Bool(HasTargetOf(route))
    /\ call' = Call("hasTarget", route, "", NoTable)
    /\ UNCHANGED <<scheme, host, port, routes, delegate, other>>

\* setShouldFormatUrlDelegate taking whatever it is given.
setShouldFormatUrlDelegate_Unchecked(d) ==
    /\ delegate' = d
    /\ call' = Call("setShouldFormatUrlDelegate", "", "", d)
    /\ ret' = Self
    /\ UNCHANGED <<scheme, host, port, routes, other>>

\* setShouldFormatUrlDelegate assigning to Repro.prototype.onShouldFormatUrl,
\* the method every table inherits.
setShouldFormatUrlDelegate_OnPrototype(d) ==
    /\ delegate' = IF d.typeof = "function" THEN d ELSE delegate
    /\ other' = IF d.typeof = "function" THEN [other EXCEPT !.delegate = d]
                 ELSE other
    /\ call' = Call("setShouldFormatUrlDelegate", "", "", d)
    /\ ret' = Self
    /\ UNCHANGED <<scheme, host, port, routes>>

setShouldFormatUrlDelegate(d) ==
    /\ delegate' = IF d.typeof = "function" THEN d ELSE delegate
    /\ call' = Call("setShouldFormatUrlDelegate", "", "", d)
    /\ ret' = Self
    /\ UNCHANGED <<scheme, host, port, routes, other>>

\* repro(): the caller's variable now holds a table just made.
repro ==
    /\ scheme' = NewTable.scheme
    /\ host' = NewTable.host
    /\ port' = NewTable.port
    /\ routes' = NewTable.routes
    /\ delegate' = NewTable.delegate
    /\ call' = Call("repro", "", "", NoTable)
    /\ ret' = Self
    /\ UNCHANGED other

\* The caller turns to the second table: the next calls are made on it.
turn ==
    /\ scheme' = other.scheme
    /\ host' = other.host
    /\ port' = other.port
    /\ routes' = other.routes
    /\ delegate' = other.delegate
    /\ other' = [scheme |-> scheme, host |-> host, port |-> port,
                 routes |-> routes, delegate |-> delegate]
    /\ call' = Call("turn", "", "", NoTable)
    /\ ret' = Self

\* FormatUrlWith, tabulated once over the options, defaults and strings of
\* the model.
FormatUrlWithDomain ==
    OptionsArgs \X SchemeVals \X HostVals \X PortVals \X OptionsRoutes

FormatUrlWithTable ==
    [x \in FormatUrlWithDomain |->
        With(x, LAMBDA d : FormatUrlWith(d[1], d[2], d[3], d[4], d[5]))] @@ <<>>

\* this.onShouldFormatUrl(route, options) of the variant with per-call
\* options, reading the table's current defaults.
onShouldFormatUrlWith(route, options) ==
    IF <<options, scheme, host, port, route>> \in FormatUrlWithDomain
    THEN FormatUrlWithTable[<<options, scheme, host, port, route>>]
    ELSE FormatUrlWith(options, scheme, host, port, route)

\* The variant with per-call options (src/index.js:1-431): the four calls
\* that take a route pass their options on to onShouldFormatUrl.
addRouteWith(route, target, options) ==
    /\ LET routeUrl  == onShouldFormatUrlWith(route, options)
           targetUrl == onShouldFormatUrlWith(target, options)
       IN  routes' = IF Truthy(routeUrl) /\ Truthy(targetUrl)
                     THEN Put(routes, routeUrl, targetUrl)
                     ELSE routes
    /\ WithinBound(routes')
    /\ call' = Call("addRoute", route, target, options)
    /\ ret' = Self
    /\ UNCHANGED <<scheme, host, port, delegate, other>>

removeRouteWith(route, options) ==
    /\ LET routeUrl == onShouldFormatUrlWith(route, options)
       IN  routes' = IF Truthy(routeUrl) THEN Delete(routes, routeUrl)
                     ELSE routes
    /\ call' = Call("removeRoute", route, "", options)
    /\ ret' = Self
    /\ UNCHANGED <<scheme, host, port, delegate, other>>

getTargetWith(route, options) ==
    /\ ret' = Lookup(routes, onShouldFormatUrlWith(route, options))
    /\ call' = Call("getTarget", route, "", options)
    /\ UNCHANGED <<scheme, host, port, routes, delegate, other>>

hasTargetWith(route, options) ==
    /\ ret' = Bool(Lookup(routes, onShouldFormatUrlWith(route, options))
                       # Undefined)
    /\ call' = Call("hasTarget", route, "", options)
    /\ UNCHANGED <<scheme, host, port, routes, delegate, other>>

Next ==
    \/ \E s \in SchemeArgs : setScheme(s)
    \/ \E h \in HostArgs : setHost(h)
    \/ \E p \in PortArgs : setPort(p)
    \/ \E tbl \in TableArgs : addRoutes(tbl)
    \/ removeRoutes
    \/ \E tbl \in TableArgs : replaceRoutes(tbl)
    \/ \E r \in RouteArgs, t \in TargetArgs : addRoute(r, t)
    \/ \E r \in RouteArgs : removeRoute(r)
    \/ \E r \in LookupArgs : getTarget(r)
    \/ \E r \in LookupArgs : hasTarget(r)

Spec == Init /\ [][Next]_vars

\* The table driven with bare ports only: every default is set, and each
\* port is added as its own target and looked up.
NextPorts ==
    \/ \E s \in SchemeArgs : setScheme(s)
    \/ \E h \in HostArgs : setHost(h)
    \/ \E p \in PortArgs : setPort(p)
    \/ \E p \in PortRoutes : addRoute(p, p)
    \/ \E p \in PortRoutes : getTarget(p)
    \/ removeRoutes

SpecPorts == Init /\ [][NextPorts]_vars

\* The table driven with bare hosts only: every default is set, and each
\* host is added as its own target and looked up.
NextHosts ==
    \/ \E s \in SchemeArgs : setScheme(s)
    \/ \E h \in HostArgs : setHost(h)
    \/ \E p \in PortArgs : setPort(p)
    \/ \E h \in HostRoutes : addRoute(h, h)
    \/ \E h \in HostRoutes : getTarget(h)
    \/ removeRoutes

SpecHosts == Init /\ [][NextHosts]_vars

\* The table with its canonicalization strategy replaced by the caller.
NextDelegate ==
    \/ \E d \in DelegateArgs : setShouldFormatUrlDelegate(d)
    \/ \E r \in DelegateRoutes, t \in {"8080", "not a valid route!!"} :
           addRoute(r, t)
    \/ \E r \in DelegateRoutes : removeRoute(r)
    \/ \E r \in DelegateRoutes : getTarget(r)
    \/ \E r \in DelegateRoutes : hasTarget(r)
    \/ removeRoutes

SpecDelegate == Init /\ [][NextDelegate]_vars

\* The table filled from tables whose keys share canonical routes.
NextOrder ==
    \/ \E s \in SchemeArgs : setScheme(s)
    \/ \E h \in HostArgs : setHost(h)
    \/ \E p \in PortArgs : setPort(p)
    \/ \E tbl \in OrderTables : addRoutes(tbl)
    \/ \E tbl \in OrderTables : replaceRoutes(tbl)
    \/ \E r \in OrderRoutes : getTarget(r)
    \/ removeRoutes

SpecOrder == Init /\ [][NextOrder]_vars

\* The table driven with routes and schemes that differ in letter case.
NextCase ==
    \/ \E s \in {"HTTP", "http", "javascript"} : setScheme(s)
    \/ \E h \in HostArgs : setHost(h)
    \/ \E p \in PortArgs : setPort(p)
    \/ \E r \in CaseRoutes, t \in {"8080", "not a valid route!!"} :
           addRoute(r, t)
    \/ \E r \in CaseRoutes : removeRoute(r)
    \/ \E r \in CaseRoutes : getTarget(r)

SpecCase == Init /\ [][NextCase]_vars

\* The table driven with the raw forms of the same endpoints.
NextAlias ==
    \/ \E s \in {"javascript", "http"} : setScheme(s)
    \/ \E h \in HostArgs : setHost(h)
    \/ \E p \in PortArgs : setPort(p)
    \/ \E r \in AliasRoutes, t \in {"8080", "a.com"} : addRoute(r, t)
    \/ \E r \in AliasRoutes : removeRoute(r)
    \/ \E r \in AliasRoutes : getTarget(r)
    \/ \E r \in AliasRoutes : hasTarget(r)

SpecAlias == Init /\ [][NextAlias]_vars

\* The table with its defaults changed after routes were added.
NextStale ==
    \/ \E s \in StaleSchemes : setScheme(s)
    \/ \E h \in StaleHosts : setHost(h)
    \/ \E p \in StalePorts : setPort(p)
    \/ \E r \in StaleRoutes : addRoute(r, "8080")
    \/ \E r \in StaleRoutes : removeRoute(r)
    \/ \E r \in StaleRoutes : getTarget(r)
    \/ \E r \in StaleRoutes : hasTarget(r)

SpecStale == Init /\ [][NextStale]_vars

\* The table filled and then replaced.
NextReplace ==
    \/ \E s \in SchemeArgs : setScheme(s)
    \/ \E p \in PortArgs : setPort(p)
    \/ \E r \in {"a.com", "8080", "a.com:80"} : addRoute(r, "8080")
    \/ \E tbl \in ReplaceTables : addRoutes(tbl)
    \/ \E tbl \in ReplaceTables : replaceRoutes(tbl)
    \/ \E r \in {"a.com", "8080", "a.com:80"} : getTarget(r)
    \/ \E r \in {"a.com", "8080", "a.com:80"} : hasTarget(r)

SpecReplace == Init /\ [][NextReplace]_vars

\* The table driven with the URLs it returns as arguments.
NextUrls ==
    \/ \E s \in UrlSchemes : setScheme(s)
    \/ \E p \in UrlPorts : setPort(p)
    \/ \E r \in PlainRoutes, t \in UrlArgs : addRoute(r, t)
    \/ \E u \in CanonicalUrls : addRoute(u, "8080")
    \/ \E r \in UrlArgs : removeRoute(r)
    \/ \E r \in UrlArgs : getTarget(r)
    \/ \E r \in UrlArgs : hasTarget(r)

SpecUrls == Init /\ [][NextUrls]_vars

\* Two tables, each set up, filled and asked in turn.
NextInstances ==
    \/ repro
    \/ turn
    \/ \E s \in {"HTTP"} : setScheme(s)
    \/ \E h \in {"B.org"} : setHost(h)
    \/ \E p \in {"8080"} : setPort(p)
    \/ \E d \in {Verbatim, Null} : setShouldFormatUrlDelegate(d)
    \/ \E r \in {"a.com"}, t \in {"8080"} : addRoute(r, t)
    \/ \E tbl \in {AComTable} : replaceRoutes(tbl)
    \/ \E r \in {"a.com"} : removeRoute(r)
    \/ \E r \in {"a.com"} : getTarget(r)

SpecInstances == Init /\ [][NextInstances]_vars

\* The variant with per-call options.
NextOptions ==
    \/ \E s \in {"HTTP", "javascript"} : setScheme(s)
    \/ \E p \in PortArgs : setPort(p)
    \/ \E r \in OptionsRoutes, t \in {"8080"}, o \in OptionsArgs :
           addRouteWith(r, t, o)
    \/ \E r \in OptionsRoutes, o \in OptionsArgs : removeRouteWith(r, o)
    \/ \E r \in OptionsRoutes, o \in OptionsArgs : getTargetWith(r, o)
    \/ \E r \in OptionsRoutes, o \in OptionsArgs : hasTargetWith(r, o)

SpecOptions == Init /\ [][NextOptions]_vars

(***************************************************************************)
(* Properties                                                              *)
(***************************************************************************)
Defaults == <<scheme, host, port>>

\* The strings of the model that are neither a port nor a host[:port].
MalformedArgs == {str \in RawArgs : ~isPort(str) /\ ~isHostPort(str)}

\* A string that is neither a port nor a host[:port].
Malformed(str) ==
    IF str \in RawArgs THEN str \in MalformedArgs
    ELSE ~isPort(str) /\ ~isHostPort(str)

\* The step is the call op(route, target).
IsCall(op, route, target) == call' = Call(op, route, target, NoTable)

\* The keys the step adds to the route map were all named by the call: by
\* the route of addRoute, or by a key of the table of addRoutes or
\* replaceRoutes.
NewKeysWereAdded ==
    \A k \in DOMAIN routes' \ DOMAIN routes :
        \/ call'.op = "addRoute" /\ onShouldFormatUrl(call'.route) = k
        \/ /\ call'.op \in {"addRoutes", "replaceRoutes"}
           /\ \E i \in 1..Len(call'.table.pairs) :
                  onShouldFormatUrl(call'.table.pairs[i][1]) = k

\* C1: after addRoute(r, t) with r and t both canonicalizing, getTarget(r)
\* returns the canonical URL of t; with the defaults of a new table,
\* addRoute("api.example.com", "127.0.0.1:8080") makes
\* getTarget("api.example.com") return "http://127.0.0.1:8080"; a key enters
\* the map only through a call that names it, so getTarget of a route that
\* was never added ("whoops.example.com") returns undefined.
C1_AddThenGet ==
    [][/\ \A c \in {call'} :
              /\ c.op = "addRoute"
              /\ Truthy(onShouldFormatUrl(c.route))
              /\ Truthy(onShouldFormatUrl(c.target))
              => GetTargetOf(c.route)' = Str(onShouldFormatUrl(c.target))
       /\ /\ IsCall("addRoute", "api.example.com", "127.0.0.1:8080")
          /\ Defaults = <<"http", "127.0.0.1", "80">>
          => GetTargetOf("api.example.com")' = Str("http://127.0.0.1:8080")
       /\ NewKeysWereAdded
       /\ scheme' # "javascript"
          => GetTargetOf("whoops.example.com")' = Undefined
      ]_vars

C1_Witness ==
    /\ call = Call("addRoute", "api.example.com", "127.0.0.1:8080", NoTable)
    /\ Defaults = <<"http", "127.0.0.1", "80">>
    /\ GetTargetOf("api.example.com") = Str("http://127.0.0.1:8080")
    /\ GetTargetOf("whoops.example.com") = Undefined

\* C2: addRoute(route, target) writes canonical(route) -> canonical(target)
\* when both strings canonicalize and leaves every other entry alone; when
\* either fails the route map is as before; in both cases the defaults are
\* unchanged and the table itself is returned.
C2_AddRouteAllOrNothing ==
    [][\A c \in {call'} : \A r \in {c.route}, t \in {c.target} :
           c.op = "addRoute"
           => /\ Defaults' = Defaults
              /\ ret' = Self
              /\ IF Malformed(r) \/ Malformed(t)
                 THEN routes' = routes
                 ELSE /\ DOMAIN routes' = DOMAIN routes \cup {onShouldFormatUrl(r)}
                      /\ routes'[onShouldFormatUrl(r)] = onShouldFormatUrl(t)
                      /\ \A k \in DOMAIN routes \ {onShouldFormatUrl(r)} :
                             routes'[k] = routes[k]
      ]_vars

C2_Witness ==
    /\ call = Call("addRoute", "a.com", "not a valid route!!", NoTable)
    /\ DOMAIN routes # {}
    /\ ~HasTargetOf("a.com")
    /\ ret = Self

\* C3: in every reachable state the empty string is not a key of the route
\* map, and getTarget of a string that is neither a port nor a host[:port]
\* returns undefined.
C3_MalformedLookupAbsent ==
    /\ "" \notin DOMAIN routes
    /\ \A str \in LookupArgs : Malformed(str) => GetTargetOf(str) = Undefined
    /\ call.op = "getTarget" /\ Malformed(call.route) => ret = Undefined

C3_Witness ==
    /\ call = Call("getTarget", "not a valid route!!", "", NoTable)
    /\ ret = Undefined
    /\ DOMAIN routes # {}

\* The step is the call op(tbl) of addRoutes or replaceRoutes.
IsTableCall(op, tbl) == call' = Call(op, "", "", tbl)

\* C4 as stated: after replaceRoutes({"a.com": "1.2.3.4:9000"}),
\* hasTarget("a.com") is true and hasTarget(r) is false for every other
\* route string r that had a target before the call.
C4_Original ==
    [][IsTableCall("replaceRoutes", AComTable)
       => /\ HasTargetOf("a.com")'
          /\ \A r \in RouteArgs \ {"a.com"} :
                 HasTargetOf(r) => ~HasTargetOf(r)'
      ]_vars

\* C4, amended: replaceRoutes({"a.com": "1.2.3.4:9000"}) leaves exactly the
\* one entry canonical("a.com") -> canonical("1.2.3.4:9000"), so
\* hasTarget("a.com") is true and hasTarget(r) is false for every r whose
\* canonical URL differs from that of "a.com"; the defaults are unchanged.
C4_ReplaceLeavesOnlyNew ==
    [][IsTableCall("replaceRoutes", AComTable)
       => /\ DOMAIN routes' = {onShouldFormatUrl("a.com")}
          /\ routes'[onShouldFormatUrl("a.com")]
                 = onShouldFormatUrl("1.2.3.4:9000")
          /\ HasTargetOf("a.com")'
          /\ \A r \in LookupArgs :
                 onShouldFormatUrl(r) # onShouldFormatUrl("a.com")
                 => ~HasTargetOf(r)'
          /\ Defaults' = Defaults
      ]_vars

C4_Witness ==
    /\ call = Call("replaceRoutes", "", "", AComTable)
    /\ HasTargetOf("a.com")
    /\ ~HasTargetOf("api.example.com")
    /\ GetTargetOf("a.com") = Str("http://1.2.3.4:9000")

\* C5: addRoutes(x) and replaceRoutes(x) with x null, undefined, a string,
\* a number or a boolean change neither the route map nor the defaults.
C5_NonObjectTableNoOp ==
    [][\A x \in NonObjectArgs :
           IsTableCall("addRoutes", x) \/ IsTableCall("replaceRoutes", x)
           => routes' = routes /\ Defaults' = Defaults
      ]_vars

C5_Witness ==
    /\ call = Call("replaceRoutes", "", "", Null)
    /\ Cardinality(DOMAIN routes) = 2

\* C6: removeRoute(route) with route canonicalizing deletes the entry
\* under that canonical key and nothing else, after which hasTarget(route)
\* is false; when the key is absent or route does not canonicalize the
\* route map is unchanged; the defaults are unchanged in every case.
C6_RemoveRouteFrame ==
    [][\A r \in RouteArgs :
           IsCall("removeRoute", r, "")
           => /\ Defaults' = Defaults
              /\ IF Malformed(r) \/ onShouldFormatUrl(r) \notin DOMAIN routes
                 THEN routes' = routes
                 ELSE /\ DOMAIN routes' = DOMAIN routes \ {onShouldFormatUrl(r)}
                      /\ \A k \in DOMAIN routes' : routes'[k] = routes[k]
              /\ ~Malformed(r) => ~HasTargetOf(r)'
      ]_vars

C6_Witness ==
    /\ call = Call("removeRoute", "a.com", "", NoTable)
    /\ ~HasTargetOf("a.com")
    /\ HasTargetOf("api.example.com")

\* C7: removeRoutes() leaves the route map empty, so getTarget(r) is
\* undefined for every r, and keeps the default scheme, host and port.
C7_RemoveRoutesClears ==
    [][call'.op = "removeRoutes"
       => /\ routes' = EmptyRoutes
          /\ \A r \in LookupArgs : GetTargetOf(r)' = Undefined
          /\ Defaults' = Defaults
      ]_vars

C7_Witness ==
    /\ call.op = "removeRoutes"
    /\ routes = EmptyRoutes
    /\ Defaults = <<"HTTP", "B.org", "8080">>

\* The strings of the model that match the scheme, host and port grammars.
WellFormedSchemes == {s \in {"http"} \cup SchemeArgs : isScheme(s)}

WellFormedHosts == {h \in {"127.0.0.1"} \cup HostArgs : isHost(h)}

WellFormedPorts == {p \in {"80"} \cup PortArgs : isPort(p)}

\* C8: setScheme, setHost and setPort overwrite their default with an
\* argument that matches the grammar ("HTTP", "javascript", "B.org",
\* "8080") and keep it otherwise ("not valid!", "bad host!", "80a"), touching
\* no other default; so the three defaults always match their grammars, and
\* after setScheme("not valid!") every string canonicalizes as before.
C8_SettersValidate ==
    [][/\ scheme' \in WellFormedSchemes
       /\ host' \in WellFormedHosts
       /\ port' \in WellFormedPorts
       /\ \A s \in {"http", "HTTP", "javascript"} :
              IsCall("setScheme", s, "")
              => Defaults' = <<s, host, port>> /\ ret' = Self
       /\ IsCall("setHost", "B.org", "")
          => Defaults' = <<scheme, "B.org", port>> /\ ret' = Self
       /\ IsCall("setPort", "8080", "")
          => Defaults' = <<scheme, host, "8080">> /\ ret' = Self
       /\ \/ IsCall("setScheme", "not valid!", "")
          \/ IsCall("setHost", "bad host!", "")
          \/ IsCall("setPort", "80a", "")
          => /\ Defaults' = Defaults
             /\ ret' = Self
             /\ \A r \in LookupArgs :
                    onShouldFormatUrl(r)' = onShouldFormatUrl(r)
      ]_vars

C8_Witness ==
    /\ call = Call("setScheme", "not valid!", "", NoTable)
    /\ Defaults = <<"HTTP", "B.org", "8080">>
    /\ onShouldFormatUrl("a.com") = "http://a.com:8080"

\* C9: setScheme, setHost and setPort leave the route map as it is, whether
\* or not they accept their argument.
C9_SettersKeepRoutes ==
    [][call'.op \in {"setScheme", "setHost", "setPort"} => routes' = routes
      ]_vars

C9_Witness ==
    /\ call = Call("setHost", "B.org", "", NoTable)
    /\ host = "B.org"
    /\ Cardinality(DOMAIN routes) = 2

C11_Original ==
    [][\A h \in HostRoutes :
           IsCall("addRoute", h, h)
           => GetTargetOf(h)' = Str(scheme \o "://" \o h \o ":" \o port)
      ]_vars

\* C11, amended: addRoute(h, h) for a well-formed hostname h makes
\* getTarget(h) return the lower-cased default scheme, "://", h lower-cased,
\* ":" and the default port; with the default scheme "javascript", which
\* the URL parser treats as having no host, it returns "javascript://", the
\* default host as given, ":" and the default port.
C11_HostRoundTrip ==
    [][\A h \in HostRoutes :
           IsCall("addRoute", h, h)
           => /\ isHost(h)
              /\ GetTargetOf(h)'
                     = Str(IF ToLowerCase(scheme) = "javascript"
                           THEN "javascript://" \o host \o ":" \o port
                           ELSE ToLowerCase(scheme) \o "://"
                                    \o ToLowerCase(h) \o ":" \o port)
      ]_vars

C11_Witness ==
    /\ call = Call("addRoute", "B.org", "B.org", NoTable)
    /\ Defaults = <<"HTTP", "127.0.0.1", "8080">>
    /\ GetTargetOf("B.org") = Str("http://b.org:8080")

\* C12: addRoute(r, t2) with the canonical key of r already present keeps
\* the number of entries and makes getTarget(r) the canonical URL of t2;
\* when t2 does not canonicalize the route map is as before.  So right
\* after a successful addRoute(r, t1), addRoute(r, t2) finds the key
\* present, overwrites t1 with t2, and when it fails leaves the mapping to
\* t1 in place.
C12_Overwrite ==
    [][\A c \in {call'} : \A r \in {c.route}, t2 \in {c.target} :
           c.op = "addRoute"
           => /\ onShouldFormatUrl(r) \in DOMAIN routes
                 => /\ Cardinality(DOMAIN routes') = Cardinality(DOMAIN routes)
                    /\ IF Malformed(t2)
                       THEN routes' = routes
                       ELSE GetTargetOf(r)' = Str(onShouldFormatUrl(t2))
              /\ \A t1 \in {call.target} :
                     /\ call.op = "addRoute" /\ call.route = r
                     /\ ~Malformed(r)
                     /\ ~Malformed(t1)
                     => /\ onShouldFormatUrl(r) \in DOMAIN routes
                        /\ GetTargetOf(r)'
                               = Str(onShouldFormatUrl(IF Malformed(t2)
                                                       THEN t1 ELSE t2))
      ]_vars

C12_Witness ==
    /\ call = Call("addRoute", "a.com:80", "8080", NoTable)
    /\ routes = [k \in {"http://a.com:80", "http://api.example.com:80"} |->
                    "http://127.0.0.1:8080"]
    /\ Defaults = <<"http", "127.0.0.1", "80">>

\* C13: addRoute(r, t) called right after addRoute(r, t), with the same
\* arguments and the defaults unchanged in between, leaves the route map
\* exactly as the first call left it.
C13_AddRouteIdempotent ==
    [][call.op = "addRoute" /\ call' = call
       => routes' = routes /\ Defaults' = Defaults
      ]_vars

C13_Witness ==
    /\ call = Call("addRoute", "api.example.com", "1.2.3.4:9000", NoTable)
    /\ routes = [k \in {"http://api.example.com:8080"} |-> "http://1.2.3.4:9000"]
    /\ Defaults = <<"http", "127.0.0.1", "8080">>

\* A string of the form scheme://host[:port] and nothing more: a scheme of
\* the scheme grammar, "://", and a host[:port] of the host-port grammar.
IsAbsoluteUrl(u) ==
    With(FirstIn(u, {":"}),
         LAMBDA c :
             /\ c > 1
             /\ isScheme(SubSeq(u, 1, c - 1))
             /\ SubSeq(u, c + 1, c + 2) = "//"
             /\ isHostPort(SubSeq(u, c + 3, Len(u))))

Usable(pairs, i) ==
    Truthy(onShouldFormatUrl(pairs[i][1])) /\ Truthy(onShouldFormatUrl(pairs[i][2]))

\* Pair j is another usable pair with the canonical route of pair i.
SameRoute(pairs, i, j) ==
    /\ j # i
    /\ Usable(pairs, j)
    /\ onShouldFormatUrl(pairs[j][1]) = onShouldFormatUrl(pairs[i][1])

\* JavaScript enumerates pair j after pair i: keys that are array indices
\* come first, in ascending numeric order, then the other keys in the
\* order of their insertion.
EnumeratedAfter(pairs, i, j) ==
    LET ki == pairs[i][1]
        kj == pairs[j][1]
    IN  IF IsArrayIndex(ki) /\ IsArrayIndex(kj) THEN IndexLeq(ki, kj) /\ ki # kj
        ELSE IF IsArrayIndex(ki) # IsArrayIndex(kj) THEN IsArrayIndex(ki)
        ELSE i < j

\* C15 as stated: addRoutes(table) stores, for each canonical route, the
\* target of the usable pair that was inserted last among those with that
\* route; with { "127.0.0.1:80": ..., "80": ... } the target of "80".
C15_Original ==
    [][\A tbl \in OrderTables :
           IsTableCall("addRoutes", tbl)
           => \A i \in 1..Len(tbl.pairs) :
                  /\ Usable(tbl.pairs, i)
                  /\ \A j \in 1..Len(tbl.pairs) :
                         SameRoute(tbl.pairs, i, j) => j < i
                  => GetTargetOf(tbl.pairs[i][1])'
                         = Str(onShouldFormatUrl(tbl.pairs[i][2]))
      ]_vars

\* C15, amended: addRoutes(table) stores, for each canonical route, the
\* target of the usable pair that JavaScript enumerates last among those
\* with that route: array-index keys such as "80" are enumerated first, in
\* ascending order, and only then the other keys in insertion order.  With
\* { "127.0.0.1:80": "1.2.3.4:9000", "80": "8080" } on a new table the
\* target stored for "80" is that of "127.0.0.1:80".
C15_EnumerationOrder ==
    [][/\ \A tbl \in OrderTables :
              IsTableCall("addRoutes", tbl)
              => \A i \in 1..Len(tbl.pairs) :
                     /\ Usable(tbl.pairs, i)
                     /\ \A j \in 1..Len(tbl.pairs) :
                            SameRoute(tbl.pairs, i, j)
                            => EnumeratedAfter(tbl.pairs, j, i)
                     => GetTargetOf(tbl.pairs[i][1])'
                            = Str(onShouldFormatUrl(tbl.pairs[i][2]))
       /\ /\ IsTableCall("addRoutes", PortLastTable)
          /\ Defaults = <<"http", "127.0.0.1", "80">>
          => GetTargetOf("80")' = Str("http://1.2.3.4:9000")
      ]_vars

C15_Witness ==
    /\ call = Call("addRoutes", "", "", PortLastTable)
    /\ Defaults = <<"http", "127.0.0.1", "80">>
    /\ routes = [k \in {"http://127.0.0.1:80"} |-> "http://1.2.3.4:9000"]

\* C16: setShouldFormatUrlDelegate(d) makes d the strategy when d is a
\* function and keeps the strategy in force (the prototype's or a
\* delegate installed earlier) when it is not; the call changes neither
\* the route map nor the defaults and returns the table.  While the
\* delegate function (route) { return route; } is installed, addRoute,
\* removeRoute, getTarget and hasTarget use the route and target strings
\* as they are; while the delegate that answers 'http://localhost:' + port
\* + '/api' for bare ports is installed, they use that URL and treat every
\* other string as invalid.
C16_DelegateReplacesStrategy ==
    [][/\ \A d \in DelegateArgs :
              IsTableCall("setShouldFormatUrlDelegate", d)
              => /\ delegate' = IF d \in FunctionArgs THEN d ELSE delegate
                 /\ routes' = routes
                 /\ Defaults' = Defaults
                 /\ ret' = Self
       /\ call'.op # "setShouldFormatUrlDelegate" => delegate' = delegate
       /\ \A r \in DelegateRoutes :
              LET url == IF delegate = Verbatim THEN r
                         ELSE IF r = "8080" THEN "http://localhost:8080/api" ELSE ""
              IN  delegate \in {Verbatim, ApiPorts}
                  => /\ \A t \in DelegateRoutes :
                            IsCall("addRoute", r, t)
                            => IF delegate = Verbatim
                               THEN routes' = Put(routes, r, t)
                               ELSE IF r = "8080" /\ t = "8080"
                               THEN routes' = Put(routes, url, url)
                               ELSE routes' = routes
                     /\ IsCall("removeRoute", r, "")
                        => routes' = IF url = "" THEN routes
                                     ELSE Delete(routes, url)
                     /\ IsCall("getTarget", r, "")
                        => ret' = Lookup(routes, url)
                     /\ IsCall("hasTarget", r, "")
                        => ret' = Bool(Lookup(routes, url) # Undefined)
      ]_vars

C16_Witness ==
    /\ call = Call("setShouldFormatUrlDelegate", "", "", Null)
    /\ delegate = ApiPorts
    /\ routes = [k \in {"a.com", "http://localhost:8080/api"} |->
                    IF k = "a.com" THEN "8080" ELSE "http://localhost:8080/api"]

\* C17: for every route string, hasTarget(route) is true exactly when
\* getTarget(route) returns a stored target URL, and false exactly when
\* getTarget(route) returns undefined.  The property read this._routes[key]
\* also answers for the names {} inherits, so under the delegate
\* function (route) { return route; } hasTarget("constructor") is true with
\* nothing stored.
C17_HasTargetIsGetTarget ==
    \A r \in DelegateRoutes :
        /\ HasTargetOf(r)
           <=> /\ onShouldFormatUrl(r) \in DOMAIN routes
               /\ GetTargetOf(r) = Str(routes[onShouldFormatUrl(r)])
        /\ ~HasTargetOf(r) <=> GetTargetOf(r) = Undefined

InFocus ==
    [scheme |-> scheme, host |-> host, port |-> port,
     routes |-> routes, delegate |-> delegate]

\* What getTarget(route) returns on a table with the fields t.
TargetIn(t, route) ==
    Lookup(t.routes,
           IF t.delegate # DefaultDelegate THEN ApplyDelegate(t.delegate, route)
           ELSE IF <<t.scheme, t.host, t.port, route>> \in FormatUrlDomain
           THEN FormatUrlTable[<<t.scheme, t.host, t.port, route>>]
           ELSE FormatUrl(t.scheme, t.host, t.port, route))

\* C19: a call on one table (a setter, setShouldFormatUrlDelegate,
\* addRoute, replaceRoutes, removeRoute, getTarget) or the making of a new
\* table leaves the fields of the other table, and so what its getTarget
\* returns, as they were; turning from one table to the other changes the
\* fields of neither; a table just made by repro() has the scheme http,
\* the host 127.0.0.1, the port 80, no routes and the prototype's
\* strategy, whatever was done to tables before.
C19_PerInstance ==
    [][/\ call'.op # "turn"
          => /\ other' = other
             /\ TargetIn(other', "a.com") = TargetIn(other, "a.com")
       /\ call'.op = "turn" => other' = InFocus /\ InFocus' = other
       /\ call'.op = "repro" => InFocus' = NewTable
      ]_vars

C19_Witness ==
    /\ call = Call("setShouldFormatUrlDelegate", "", "", Verbatim)
    /\ InFocus = [NewTable EXCEPT !.delegate = Verbatim, !.scheme = "HTTP"]
    /\ other = [NewTable EXCEPT !.port = "8080", !.host = "B.org",
                                !.routes = [k \in {"http://a.com:8080"} |->
                                               "http://1.2.3.4:9000"]]

\* The default or its override as C20 describes it: the field of the
\* options when the options are an object and the field is there and
\* matches its grammar, else the table's default.
Override(options, field, matches(_), default) ==
    IF options.has /\ field.defined /\ matches(field.str) THEN field.str
    ELSE default

\* The canonical URL of str under the options as C20 describes them.
OverriddenUrl(options, str) ==
    FormatUrl(Override(options, options.scheme, isScheme, scheme),
              Override(options, options.host, isHost, host),
              Override(options, options.port, isPort, port),
              str)

\* C20: a call with an options object canonicalizes with each of
\* options.scheme, options.host, options.port that matches its grammar in
\* place of the table's default, and with the table's default for a field
\* that is missing or does not match; the table's defaults are the same
\* after the call.
C20_OptionsOverrideOneCall ==
    [][\A o \in OptionsArgs, r \in OptionsRoutes :
           /\ call'.table = o /\ call'.route = r
              => Defaults' = Defaults
           /\ call' = Call("getTarget", r, "", o)
              => ret' = Lookup(routes, OverriddenUrl(o, r))
           /\ call' = Call("hasTarget", r, "", o)
              => ret' = Bool(OverriddenUrl(o, r) \in DOMAIN routes)
           /\ call' = Call("removeRoute", r, "", o)
              => routes' = IF Truthy(OverriddenUrl(o, r))
                           THEN Delete(routes, OverriddenUrl(o, r))
                           ELSE routes
           /\ call' = Call("addRoute", r, "8080", o)
              => routes' = IF Truthy(OverriddenUrl(o, r))
                           THEN Put(routes, OverriddenUrl(o, r),
                                    OverriddenUrl(o, "8080"))
                           ELSE routes
      ]_vars

\* Each route in lower case, tabulated once.
CaseFold == [r \in CaseRoutes |-> ToLowerCase(r)] @@ <<>>

\* C21: route strings that differ only in the letter case of the host
\* canonicalize to the same key, so a target added under one is what
\* getTarget of the other returns; and with the default scheme "HTTP" every
\* route has the canonical URL it has with the default scheme "http".
C21_CaseInsensitive ==
    [][/\ \A r1 \in CaseRoutes, r2 \in CaseRoutes :
              CaseFold[r1] = CaseFold[r2]
              => /\ onShouldFormatUrl(r1)' = onShouldFormatUrl(r2)'
                 /\ IsCall("addRoute", r1, "8080")
                    => GetTargetOf(r2)' = Str(onShouldFormatUrl("8080"))
       /\ \A r \in CaseRoutes \cup {"8080"} :
              /\ IsCall("setScheme", "HTTP", "")
                 => onShouldFormatUrl(r)' = FormatUrlTable[<<"http", host, port, r>>]
              /\ IsCall("setScheme", "http", "")
                 => onShouldFormatUrl(r)' = FormatUrlTable[<<"HTTP", host, port, r>>]
      ]_vars

C21_Witness ==
    /\ call = Call("getTarget", "API.Example.com", "", NoTable)
    /\ ret = Str("http://127.0.0.1:8080")
    /\ scheme = "HTTP"
    /\ routes = [k \in {"http://api.example.com:80"} |-> "http://127.0.0.1:8080"]

\* Whether a bare route is a port, tabulated once.
BareIsPort == [b \in BareRoutes |-> isPort(b)] @@ <<>>

\* The other raw form of a bare route under the current defaults: the
\* default host written before a bare port, the default port after a bare
\* host.
AliasOf(route) ==
    IF BareIsPort[route] THEN host \o ":" \o route ELSE route \o ":" \o port

\* The pair of a bare route and its other form, in both orders.
AliasPairs == UNION {{<<b, AliasOf(b)>>, <<AliasOf(b), b>>} : b \in BareRoutes}

\* C22: under the current defaults a bare port p and "H:p", and a bare host
\* h and "h:P", canonicalize to the same URL; addRoute through one form is
\* seen by getTarget and hasTarget through the other and overwrites its
\* entry, removeRoute through one form deletes the entry of the other, and
\* the map never holds two entries for such a pair.
C22_Aliases ==
    [][\A pair \in AliasPairs :
           /\ onShouldFormatUrl(pair[1]) = onShouldFormatUrl(pair[2])
           /\ Truthy(onShouldFormatUrl(pair[1]))
           /\ \A t \in {"8080", "a.com"} :
                  IsCall("addRoute", pair[1], t)
                  => /\ GetTargetOf(pair[2])' = Str(onShouldFormatUrl(t))
                     /\ HasTargetOf(pair[2])'
                     /\ HasTargetOf(pair[2]) => DOMAIN routes' = DOMAIN routes
           /\ IsCall("removeRoute", pair[1], "")
              => /\ GetTargetOf(pair[2])' = Undefined
                 /\ ~HasTargetOf(pair[2])'
                 /\ DOMAIN routes' = DOMAIN routes \ {onShouldFormatUrl(pair[2])}
           /\ IsCall("getTarget", pair[1], "") => ret' = GetTargetOf(pair[2])
           /\ IsCall("hasTarget", pair[1], "") => ret' = Bool(HasTargetOf(pair[2]))
           /\ Cardinality({onShouldFormatUrl(pair[1]), onShouldFormatUrl(pair[2])}
                           \cap DOMAIN routes') <= 1
      ]_vars

C22_Witness ==
    /\ call = Call("addRoute", "8080", "a.com", NoTable)
    /\ host = "B.org"
    /\ port = "8080"
    /\ scheme = "http"
    /\ routes = [k \in {"http://b.org:8080"} |-> "http://a.com:8080"]
    /\ GetTargetOf("B.org:8080") = Str("http://a.com:8080")

\* String s begins with prefix.
HasPrefix(s, prefix) ==
    Len(s) >= Len(prefix) /\ SubSeq(s, 1, Len(prefix)) = prefix

\* The entry under key k is stored unchanged by the step.
Kept(k) == k \in DOMAIN routes' /\ routes'[k] = routes[k]

\* The entry the bare route currently reaches, when the step is a call of op
\* that changes the default d.
GoesStale(op, changed, bare) ==
    /\ call'.op = op
    /\ changed
    /\ onShouldFormatUrl(bare) \in DOMAIN routes

\* The scheme is one the URL parser treats as having no host.
Hostless == ToLowerCase(scheme) \o ":" \in HostlessProtocol

\* C23 as stated: once setPort has changed the default port, getTarget(h) of
\* a bare host h with an entry is absent and hasTarget(h) false while the
\* entry is still reached as "h:P"; once setHost has changed the default
\* host, a bare port no longer reaches its entry; once setScheme has changed
\* the scheme, no route string reaches an entry of the earlier scheme.
C23_Original ==
    [][/\ GoesStale("setPort", port' # port, "a.com")
          => /\ GetTargetOf("a.com")' = Undefined
             /\ ~HasTargetOf("a.com")'
             /\ Kept(onShouldFormatUrl("a.com"))
             /\ \A p \in {port} :
                    GetTargetOf("a.com:" \o p)'
                        = Str(routes[onShouldFormatUrl("a.com")])
       /\ GoesStale("setHost", host' # host, "8080")
          => onShouldFormatUrl("8080")' # onShouldFormatUrl("8080")
       /\ call'.op = "setScheme" /\ scheme' # scheme
          => \A k \in DOMAIN routes, r \in StaleRoutes :
                 HasPrefix(k, ToLowerCase(scheme) \o "://")
                 => onShouldFormatUrl(r)' # k
      ]_vars

\* C23: an entry stays under the key it was given when a default changes.
\* Once setPort has changed the default port, the entry of a bare host h is
\* still stored, h has another key (so removeRoute(h) leaves the entry, and
\* getTarget(h) is absent and hasTarget(h) false unless that other key has an
\* entry), and the entry is reached as "h:P", except under a hostless
\* scheme, where no route string reaches it.  Once setHost has changed the
\* default host, a bare port has another key unless the hosts differ in
\* letter case only under a scheme with a host.  Once setScheme has changed
\* the scheme in more than letter case, no route string reaches an entry of
\* the earlier scheme; a change of letter case only leaves every key as it
\* was.
C23_StaleEntries ==
    [][/\ GoesStale("setPort", port' # port, "a.com")
          => /\ Kept(onShouldFormatUrl("a.com"))
             /\ onShouldFormatUrl("a.com")' # onShouldFormatUrl("a.com")
             /\ onShouldFormatUrl("a.com")' \notin DOMAIN routes
                => GetTargetOf("a.com")' = Undefined /\ ~HasTargetOf("a.com")'
             /\ IF Hostless
                THEN \A r \in StaleRoutes :
                         onShouldFormatUrl(r)' # onShouldFormatUrl("a.com")
                ELSE \A p \in {port} :
                         GetTargetOf("a.com:" \o p)'
                             = Str(routes[onShouldFormatUrl("a.com")])
       /\ \A r \in StaleRoutes :
              IsCall("removeRoute", r, "")
              => \A k \in DOMAIN routes : k # onShouldFormatUrl(r) => Kept(k)
       /\ GoesStale("setHost", host' # host, "8080")
          => /\ Kept(onShouldFormatUrl("8080"))
             /\ (onShouldFormatUrl("8080")' = onShouldFormatUrl("8080"))
                 <=> (~Hostless /\ ToLowerCase(host') = ToLowerCase(host))
       /\ call'.op = "setScheme"
          => IF ToLowerCase(scheme') = ToLowerCase(scheme)
             THEN \A r \in StaleRoutes :
                      onShouldFormatUrl(r)' = onShouldFormatUrl(r)
             ELSE \A k \in DOMAIN routes, r \in StaleRoutes :
                      HasPrefix(k, ToLowerCase(scheme) \o "://")
                      => Kept(k) /\ onShouldFormatUrl(r)' # k
      ]_vars

C23_Witness ==
    /\ call = Call("setPort", "8080", "", NoTable)
    /\ scheme = "http"
    /\ port = "8080"
    /\ routes = [k \in {"http://a.com:80"} |-> "http://127.0.0.1:8080"]
    /\ GetTargetOf("a.com") = Undefined
    /\ GetTargetOf("a.com:80") = Str("http://127.0.0.1:8080")

\* C24: replaceRoutes with an object none of whose pairs canonicalize (an
\* empty object and an array among them) discards every prior entry and
\* leaves the map empty: no route that had a target has one afterwards.
C24_ReplaceDiscards ==
    [][\A tbl \in ReplaceTables :
           /\ IsTableCall("replaceRoutes", tbl)
           /\ IsObjectArg(tbl)
           /\ \A i \in 1..Len(tbl.pairs) : ~Usable(tbl.pairs, i)
           => /\ routes' = EmptyRoutes
              /\ \A r \in {"a.com", "8080", "a.com:80"} :
                     GetTargetOf(r)' = Undefined /\ ~HasTargetOf(r)'
      ]_vars

C24_Witness ==
    /\ call = Call("replaceRoutes", "", "", ArrayTable)
    /\ routes = EmptyRoutes
    /\ port = "8080"
    /\ ~HasTargetOf("a.com")

\* Every URL of the model holds "://".
CanonicalUrlsHaveSlashes ==
    \A u \in CanonicalUrls :
        \E i \in 1..(Len(u) - 2) : SubSeq(u, i, i + 2) = "://"

\* C25: every string the built-in strategy returns for a well-formed route,
\* and every key and target stored, is a URL holding "://"; canonicalizing
\* such a URL u yields the empty string, so getTarget(u) is absent and
\* hasTarget(u) false in every state, addRoute(u, t) and addRoute(r, u)
\* leave the map as it was, and removeRoute(u) removes nothing.
C25_UrlsAreNotRoutes ==
    [][/\ CanonicalUrlsHaveSlashes
       /\ \A r \in PlainRoutes : onShouldFormatUrl(r)' \in CanonicalUrls
       /\ \A k \in DOMAIN routes' :
              k \in CanonicalUrls /\ routes'[k] \in CanonicalUrls
       /\ \A u \in CanonicalUrls :
              /\ onShouldFormatUrl(u)' = ""
              /\ GetTargetOf(u)' = Undefined
              /\ ~HasTargetOf(u)'
              /\ call'.op = "addRoute" /\ u \in {call'.route, call'.target}
                 => routes' = routes
              /\ IsCall("removeRoute", u, "") => routes' = routes
              /\ IsCall("getTarget", u, "") => ret' = Undefined
              /\ IsCall("hasTarget", u, "") => ret' = Bool(FALSE)
      ]_vars

C25_Witness ==
    /\ call = Call("addRoute", "http://a.com:80", "8080", NoTable)
    /\ routes = [k \in {"http://a.com:80"} |-> "http://127.0.0.1:8080"]
    /\ GetTargetOf("http://a.com:80") = Undefined
    /\ GetTargetOf("a.com") = Str("http://127.0.0.1:8080")

====
